---- MODULE Spec2Model ----
(***************************************************************************)
(* Model of the shop's co-purchase recommender (app/shop/recommender.py),  *)
(* the Redis sorted-set store it talks to and the product catalog it      *)
(* resolves IDs against.  Every Redis command and every catalog query is  *)
(* one atomic step of the calling request; requests interleave freely.    *)
(* The pages that show recommendations (product_detail, cart_detail) and  *)
(* the session cart, coupon and order views are modelled around it.       *)
(***************************************************************************)
EXTENDS Integers, Sequences, FiniteSets, TLC

\* ---------------------------------------------------------------- bounds
InitialProducts == 3       \* products in the catalog at the start: 1..InitialProducts
MaxLen == 2                \* longest product list handed to a call of overlapping requests, or to suggest_products_for
MaxBasket == 3             \* longest product list handed to a products_bought that runs alone
MaxK == 2                  \* largest max_results
MaxRecords == 2            \* products_bought calls in one behaviour
MaxCalls == 3              \* Recommender calls in one behaviour of overlapping requests
MaxOutages == 1            \* times the store becomes unreachable
MaxDeleted == 1            \* products deleted from the catalog
NumProcs == 2              \* requests / workers running at once
MaxQuantity == 2           \* largest quantity a cart line reaches
MaxRequests == 4           \* requests to the cart, coupon and order views in one behaviour
MaxOrders == 2             \* orders created
MaxTime == 3               \* the clock runs from 0 to MaxTime
MaxCartQuantity == 42      \* highest quantity of a cart line in the cart requests
MaxLifeRecords == 1        \* products_bought calls before the overlapping suggestions
MaxScenarioRecords == 3    \* products_bought calls in one behaviour of the worked scenarios
ScenarioK == 5             \* max_results of the suggest_products_for calls of the worked scenarios

Procs == 1..NumProcs

\* every product ID there ever is
ProductIds == 1..InitialProducts

\* the single worker of the executions in which calls do not overlap
SeqProcs == {1}

VARIABLES
    catalog,    \* Product.objects: the IDs of the products that exist
    store,      \* Redis: key -> sorted set (member -> score); only existing keys
    storeUp,    \* whether Redis answers
    outages,    \* how many times Redis went down
    nrec,       \* how many products_bought calls were started
    ncall,      \* how many calls were started by overlapping requests
    ndel,       \* how many products were deleted
    pc,         \* per request: position in the code
    redis,      \* per request: Recommender.redis is a handle (TRUE) or None (FALSE)
    local,      \* per request: the locals of the running method
    snap,       \* the store as it was when the running call began (calls that run alone)
    view,       \* per request: the view being served and what it has rendered
    session,    \* request.session of the one customer: cart, coupon_id, order_id
    coupons,    \* Coupon.objects: id -> row
    now,        \* timezone.now()
    orders,     \* Order.objects: id -> row, ids 1..Len(orders)
    items,      \* OrderItem.objects, in creation order
    req,        \* the last request served by the cart, coupon, order and webhook views
    tasks,      \* payment_completed.delay(order.id): the order IDs of the tasks launched, in order
    prices      \* Product.price of every product, in cents

engineVars == <<catalog, store, storeUp, outages, nrec, ncall, ndel, pc, redis, local, snap>>

shopVars == <<view, session, coupons, now, orders, items, req, tasks, prices>>

vars == <<catalog, store, storeUp, outages, nrec, ncall, ndel, pc, redis, local, snap,
          view, session, coupons, now, orders, items, req, tasks, prices>>

\* ------------------------------------------------------ strings and keys
\* str(n) for a non-negative int: its decimal digits.
RECURSIVE Str(_)
Str(n) == IF n < 10 THEN <<n>> ELSE Str(n \div 10) \o <<n % 10>>

\* int(s) for a string of decimal digits.
RECURSIVE ParseInt(_)
ParseInt(s) == IF Len(s) = 0 THEN 0
               ELSE 10 * ParseInt(SubSeq(s, 1, Len(s) - 1)) + s[Len(s)]

\* "".join(parts)
RECURSIVE Join(_)
Join(parts) == IF Len(parts) = 0 THEN <<>> ELSE Head(parts) \o Join(Tail(parts))

\* f"product:{product_id}:purchased_with"
get_product_key(product_id) == <<"product", Str(product_id)>>

\* the union stored over the first source key
TmpKeyMut(product_ids) == <<"product", Str(product_ids[1])>>

\* the IDs of a set, ascending
RECURSIVE SortedIds(_)
SortedIds(S) ==
    IF S = {} THEN <<>>
    ELSE LET least == CHOOSE x \in S : \A y \in S : x <= y
         IN <<least>> \o SortedIds(S \ {least})

\* the key built from the sorted, deduplicated IDs
TmpKeySorted(product_ids) ==
    LET ids == SortedIds({product_ids[n] : n \in 1..Len(product_ids)})
    IN <<"tmp", Join([n \in 1..Len(ids) |-> Str(ids[n])])>>

\* f"tmp_{flat_ids}" with flat_ids the concatenated decimal IDs
TmpKey(product_ids) ==
    <<"tmp", Join([n \in 1..Len(product_ids) |-> Str(product_ids[n])])>>

\* byte-wise order of two strings (memcmp, then length)
RECURSIVE LexLess(_, _)
LexLess(s, t) ==
    IF Len(s) = 0 THEN Len(t) > 0
    ELSE IF Len(t) = 0 THEN FALSE
    ELSE IF Head(s) # Head(t) THEN Head(s) < Head(t)
    ELSE LexLess(Tail(s), Tail(t))

\* ------------------------------------------------------------ the store
EmptyZSet == [m \in {} |-> 0]

\* a Redis with no key
EmptyStore == [key \in {} |-> EmptyZSet]

\* the sorted set under a key; a missing key reads as the empty set
Get(st, key) == IF key \in DOMAIN st THEN st[key] ELSE EmptyZSet

\* write a sorted set back; Redis drops a key whose set became empty
Put(st, key, zs) ==
    IF DOMAIN zs = {}
    THEN [x \in (DOMAIN st) \ {key} |-> st[x]]
    ELSE [x \in (DOMAIN st) \cup {key} |-> IF x = key THEN zs ELSE st[x]]

ZScore(zs, member) == IF member \in DOMAIN zs THEN zs[member] ELSE 0

\* ZADD in the place of ZINCRBY: the score is set, not added to
ZIncrByMut(zs, delta, member) ==
    [m \in (DOMAIN zs) \cup {member} |-> IF m = member THEN delta ELSE zs[m]]

\* ZINCRBY key delta member
ZIncrBy(zs, delta, member) ==
    [m \in (DOMAIN zs) \cup {member} |->
        IF m = member THEN ZScore(zs, m) + delta ELSE zs[m]]

\* ZREM key member [member ...]
ZRem(zs, members) == [m \in (DOMAIN zs) \ members |-> zs[m]]

\* the aggregate ZUNIONSTORE builds: every member of any source, its scores summed
\* over the source keys as listed (a key listed twice counts twice)
RECURSIVE SumScores(_, _, _)
SumScores(st, keys, member) ==
    IF Len(keys) = 0 THEN 0
    ELSE ZScore(Get(st, Head(keys)), member) + SumScores(st, Tail(keys), member)

ZUnion(st, keys) ==
    [m \in UNION {DOMAIN Get(st, keys[n]) : n \in 1..Len(keys)} |->
        SumScores(st, keys, m)]

\* desc=True left out: lowest score first
AboveMut(zs, m1, m2) ==
    \/ zs[m1] < zs[m2]
    \/ zs[m1] = zs[m2] /\ LexLess(m1, m2)

\* ZRANGE key 0 -1 REV: members by score, highest first; equal scores in
\* reverse byte order of the member
Above(zs, m1, m2) ==
    \/ zs[m1] > zs[m2]
    \/ zs[m1] = zs[m2] /\ LexLess(m2, m1)

RECURSIVE ZRevRange(_)
ZRevRange(zs) ==
    IF DOMAIN zs = {} THEN <<>>
    ELSE LET top == CHOOSE m \in DOMAIN zs :
                        \A o \in (DOMAIN zs) \ {m} : Above(zs, m, o)
         IN <<top>> \o ZRevRange(ZRem(zs, {top}))

\* the slice left out
TruncateMut(seq, max_results) == seq

\* seq[:max_results]
Truncate(seq, max_results) ==
    SubSeq(seq, 1, IF Len(seq) < max_results THEN Len(seq) ELSE max_results)

\* lines 94-96 and 103: zrange(key, 0, -1, desc=True)[:max_results]
RangeDesc(st, key, max_results) == Truncate(ZRevRange(Get(st, key)), max_results)

\* ---------------------------------------------------------- the catalog
\* Product.Meta.ordering = ["name"]: the order the database returns products in.
\* Names are not modelled; products are named so that name order is
\* descending ID order.
RECURSIVE NameOrder(_)
NameOrder(S) ==
    IF S = {} THEN <<>>
    ELSE LET first == CHOOSE x \in S : \A y \in S : y <= x
         IN <<first>> \o NameOrder(S \ {first})

\* list.index(x): position of the first occurrence
IndexOf(seq, x) == CHOOSE n \in 1..Len(seq) :
                       seq[n] = x /\ \A m \in 1..(n - 1) : seq[m] # x

\* products.sort(key=lambda x: suggested_ids.index(x.id)): insertion sort, stable
RECURSIVE InsertByIndex(_, _, _)
InsertByIndex(sorted, x, ref) ==
    IF Len(sorted) = 0 THEN <<x>>
    ELSE IF IndexOf(ref, x) < IndexOf(ref, Head(sorted))
         THEN <<x>> \o sorted
         ELSE <<Head(sorted)>> \o InsertByIndex(Tail(sorted), x, ref)

\* the re-sort left out: the products stay in the order of the query
SortByIndexMut(seq, ref) == seq

RECURSIVE SortByIndex(_, _)
SortByIndex(seq, ref) ==
    IF Len(seq) = 0 THEN <<>>
    ELSE InsertByIndex(SortByIndex(SubSeq(seq, 1, Len(seq) - 1), ref),
                       seq[Len(seq)], ref)

SeqToSet(seq) == {seq[n] : n \in 1..Len(seq)}

\* lines 106-109: int() of every suggestion, one filter(id__in=...) query, re-sort
Resolve(cat, suggestions) ==
    LET suggested_ids == [n \in 1..Len(suggestions) |-> ParseInt(suggestions[n])]
        products == NameOrder(SeqToSet(suggested_ids) \cap cat)
    IN SortByIndex(products, suggested_ids)

\* ------------------------------------------------------------- requests
IdleLocal ==
    [op |-> "none", product_ids |-> <<>>, max_results |-> 0, i |-> 0, j |-> 0,
     suggestions |-> <<>>, todo |-> <<>>, result |-> <<>>, outcome |-> "none",
     ncalls |-> 0]

\* no view is being served
NoView ==
    [name |-> "none", products |-> <<>>, status |-> "none", raised |-> FALSE,
     recommended |-> <<>>]

\* session.get("coupon_id") when the key is missing or holds None; coupon IDs
\* are positive
NoCoupon == 0

\* session.get("order_id") when the key is missing; order IDs are positive
NoOrder == 0

\* a new session: no cart key, no coupon_id, no order_id.  The cart is the
\* dict of the session in insertion order, one line per product:
\* [product_id |-> str(product.id), quantity |-> int, price |-> str(product.price)]
EmptySession ==
    [has_cart |-> FALSE, cart |-> <<>>, coupon_id |-> NoCoupon, order_id |-> NoOrder]

\* the coupons the shop starts with: times are points of the clock 0..MaxTime
InitialCoupons ==
    <<[code |-> "SAVE10", valid_from |-> 1, valid_to |-> 2, discount |-> 10,
       active |-> TRUE],
      [code |-> "OFF20", valid_from |-> 0, valid_to |-> 1, discount |-> 20,
       active |-> TRUE]>>

\* the prices the products start with
InitialPrices == [product_id \in 1..InitialProducts |-> 100 * product_id]

\* no request served yet
NoRequest ==
    [seq |-> 0, name |-> "none", args |-> <<>>, valid |-> FALSE, status |-> "none",
     modified |-> FALSE]

\* the state after start-up, with the given products in the database
InitWith(products) ==
    /\ view = [p \in Procs |-> NoView]
    /\ session = EmptySession
    /\ coupons = InitialCoupons
    /\ now = 0
    /\ orders = <<>>
    /\ items = <<>>
    /\ req = NoRequest
    /\ tasks = <<>>
    /\ prices = InitialPrices
    /\ catalog = products
    /\ store = EmptyStore
    /\ storeUp = TRUE
    /\ outages = 0
    /\ nrec = 0
    /\ ncall = 0
    /\ ndel = 0
    /\ pc = [p \in Procs |-> "idle"]
    /\ redis = [p \in Procs |-> FALSE]
    /\ local = [p \in Procs |-> IdleLocal]
    /\ snap = EmptyStore

Init == InitWith(1..InitialProducts)

\* the product lists a caller can hand over: instances of existing products
ProductLists(maxlen) ==
    UNION {[1..n -> catalog] : n \in 1..maxlen}

\* no other request is inside a Recommender method
Alone(p) == \A q \in Procs \ {p} : pc[q] \in {"idle", "ready"}

\* a call that runs alone remembers the store it started from
Enter(p, seq) ==
    /\ pc[p] = "ready"
    /\ IF seq
       THEN Alone(p) /\ snap' = store /\ ncall' = ncall
       ELSE ncall < MaxCalls /\ snap' = snap /\ ncall' = ncall + 1

\* a Redis command of request p that finds the store down: RedisError leaves the method
Raise(p) ==
    /\ local' = [local EXCEPT ![p].outcome = "raised", ![p].ncalls = @ + 1]
    /\ pc' = [pc EXCEPT ![p] = "done"]
    /\ store' = store

\* Recommender.__init__: connect and ping once; None when that fails
Construct(p) ==
    /\ pc[p] = "idle"
    /\ redis' = [redis EXCEPT ![p] = storeUp]
    /\ pc' = [pc EXCEPT ![p] = "ready"]
    /\ UNCHANGED <<catalog, store, storeUp, outages, nrec, ncall, ndel, local, snap>>
    /\ UNCHANGED shopVars

\* the request ends and its Recommender is dropped
Discard(p) ==
    /\ pc[p] = "ready"
    /\ redis' = [redis EXCEPT ![p] = FALSE]
    /\ pc' = [pc EXCEPT ![p] = "idle"]
    /\ UNCHANGED <<catalog, store, storeUp, outages, nrec, ncall, ndel, local, snap>>
    /\ UNCHANGED shopVars

\* the method has returned or raised; the caller takes the result
Return(p) ==
    /\ pc[p] = "done"
    /\ pc' = [pc EXCEPT ![p] = "ready"]
    /\ local' = [local EXCEPT ![p] = IdleLocal]
    /\ snap' = EmptyStore
    /\ UNCHANGED <<catalog, store, storeUp, outages, nrec, ncall, ndel, redis>>
    /\ UNCHANGED shopVars

\* the guard left out
DegradedMut(handle) == FALSE

\* lines 60, 89, 120: if not self.redis
Degraded(handle) == ~handle

\* ----------------------------------------------------- products_bought
\* the test left out
DifferMut(product_id, with_id) == TRUE

\* line 65: if product_id != with_id
Differ(product_id, with_id) == product_id # with_id

\* the inner loop started after the outer position: each pair visited once
RECURSIVE NextPairMut(_, _, _)
NextPairMut(product_ids, i, j) ==
    IF i > Len(product_ids) THEN <<0, 0>>
    ELSE IF j > Len(product_ids) THEN NextPairMut(product_ids, i + 1, i + 2)
    ELSE IF j > i THEN <<i, j>>
    ELSE NextPairMut(product_ids, i, j + 1)

\* the nested loops of lines 63-65: the first position at or after (i, j) whose
\* pair passes the test of line 65; <<0, 0>> when the loops are over
RECURSIVE NextPair(_, _, _)
NextPair(product_ids, i, j) ==
    IF i > Len(product_ids) THEN <<0, 0>>
    ELSE IF j > Len(product_ids) THEN NextPair(product_ids, i + 1, 1)
    ELSE IF Differ(product_ids[i], product_ids[j]) THEN <<i, j>>
    ELSE NextPair(product_ids, i, j + 1)

\* lines 60-62 and the loops up to the first zincrby
products_bought(p, products, seq, max_records) ==
    /\ Enter(p, seq)
    /\ nrec < max_records
    /\ nrec' = nrec + 1
    /\ IF Degraded(redis[p])
       THEN /\ local' = [local EXCEPT ![p].op = "products_bought",
                                      ![p].outcome = "returned"]
            /\ pc' = [pc EXCEPT ![p] = "done"]
       ELSE LET at == NextPair(products, 1, 1) IN
            /\ local' = [local EXCEPT ![p].op = "products_bought",
                                      ![p].product_ids = products,
                                      ![p].i = at[1], ![p].j = at[2],
                                      ![p].outcome =
                                          IF at[1] = 0 THEN "returned" ELSE "running"]
            /\ pc' = [pc EXCEPT ![p] = IF at[1] = 0 THEN "done" ELSE "zincrby"]
    /\ UNCHANGED <<catalog, store, storeUp, outages, ndel, redis>>
    /\ UNCHANGED shopVars

\* line 66, then the loops up to the next zincrby or the end
Zincrby(p) ==
    /\ pc[p] = "zincrby"
    /\ IF storeUp
       THEN LET l == local[p]
                key == get_product_key(l.product_ids[l.i])
                with_id == Str(l.product_ids[l.j])
                at == NextPair(l.product_ids, l.i, l.j + 1)
            IN /\ store' = Put(store, key, ZIncrBy(Get(store, key), 1, with_id))
               /\ local' = [local EXCEPT ![p].i = at[1], ![p].j = at[2],
                                         ![p].ncalls = @ + 1,
                                         ![p].outcome =
                                             IF at[1] = 0 THEN "returned" ELSE "running"]
               /\ pc' = [pc EXCEPT ![p] = IF at[1] = 0 THEN "done" ELSE "zincrby"]
       ELSE Raise(p)
    /\ UNCHANGED <<catalog, storeUp, outages, nrec, ncall, ndel, redis, snap>>
    /\ UNCHANGED shopVars

\* ------------------------------------------------- suggest_products_for
\* lines 89-93, 98-100
suggest_products_for(p, products, max_results, seq) ==
    /\ Enter(p, seq)
    /\ IF Degraded(redis[p])
       THEN /\ local' = [local EXCEPT ![p].op = "suggest_products_for",
                                      ![p].outcome = "returned"]
            /\ pc' = [pc EXCEPT ![p] = "done"]
       ELSE /\ local' = [local EXCEPT ![p].op = "suggest_products_for",
                                      ![p].product_ids = products,
                                      ![p].max_results = max_results,
                                      ![p].outcome = "running"]
            /\ pc' = [pc EXCEPT ![p] = IF Len(products) = 1 THEN "zrange1"
                                                            ELSE "zunionstore"]
    /\ UNCHANGED <<catalog, store, storeUp, outages, nrec, ndel, redis>>
    /\ UNCHANGED shopVars

\* lines 94-96
ZrangeSingle(p) ==
    /\ pc[p] = "zrange1"
    /\ IF storeUp
       THEN LET l == local[p]
                key == get_product_key(l.product_ids[1])
            IN /\ local' = [local EXCEPT
                    ![p].suggestions = RangeDesc(store, key, l.max_results),
                    ![p].ncalls = @ + 1]
               /\ pc' = [pc EXCEPT ![p] = "resolve"]
               /\ store' = store
       ELSE Raise(p)
    /\ UNCHANGED <<catalog, storeUp, outages, nrec, ncall, ndel, redis, snap>>
    /\ UNCHANGED shopVars

\* line 101
Zunionstore(p) ==
    /\ pc[p] = "zunionstore"
    /\ IF storeUp
       THEN LET l == local[p]
                keys == [n \in 1..Len(l.product_ids) |-> get_product_key(l.product_ids[n])]
            IN /\ store' = Put(store, TmpKey(l.product_ids), ZUnion(store, keys))
               /\ local' = [local EXCEPT ![p].ncalls = @ + 1]
               /\ pc' = [pc EXCEPT ![p] = "zrem"]
       ELSE Raise(p)
    /\ UNCHANGED <<catalog, storeUp, outages, nrec, ncall, ndel, redis, snap>>
    /\ UNCHANGED shopVars

\* line 102
Zrem(p) ==
    /\ pc[p] = "zrem"
    /\ IF storeUp
       THEN LET l == local[p]
                tmp_key == TmpKey(l.product_ids)
                members == {Str(l.product_ids[n]) : n \in 1..Len(l.product_ids)}
            IN /\ store' = Put(store, tmp_key, ZRem(Get(store, tmp_key), members))
               /\ local' = [local EXCEPT ![p].ncalls = @ + 1]
               /\ pc' = [pc EXCEPT ![p] = "zrange"]
       ELSE Raise(p)
    /\ UNCHANGED <<catalog, storeUp, outages, nrec, ncall, ndel, redis, snap>>
    /\ UNCHANGED shopVars

\* line 103
Zrange(p) ==
    /\ pc[p] = "zrange"
    /\ IF storeUp
       THEN LET l == local[p]
                tmp_key == TmpKey(l.product_ids)
            IN /\ local' = [local EXCEPT
                    ![p].suggestions = RangeDesc(store, tmp_key, l.max_results),
                    ![p].ncalls = @ + 1]
               /\ pc' = [pc EXCEPT ![p] = "delete"]
               /\ store' = store
       ELSE Raise(p)
    /\ UNCHANGED <<catalog, storeUp, outages, nrec, ncall, ndel, redis, snap>>
    /\ UNCHANGED shopVars

\* the delete left out: the call goes on and the key stays
DeleteMut(p) ==
    /\ pc[p] = "delete"
    /\ IF storeUp
       THEN /\ store' = store
            /\ local' = [local EXCEPT ![p].ncalls = @ + 1]
            /\ pc' = [pc EXCEPT ![p] = "resolve"]
       ELSE Raise(p)
    /\ UNCHANGED <<catalog, storeUp, outages, nrec, ncall, ndel, redis, snap>>
    /\ UNCHANGED shopVars

\* line 104
Delete(p) ==
    /\ pc[p] = "delete"
    /\ IF storeUp
       THEN /\ store' = Put(store, TmpKey(local[p].product_ids), EmptyZSet)
            /\ local' = [local EXCEPT ![p].ncalls = @ + 1]
            /\ pc' = [pc EXCEPT ![p] = "resolve"]
       ELSE Raise(p)
    /\ UNCHANGED <<catalog, storeUp, outages, nrec, ncall, ndel, redis, snap>>
    /\ UNCHANGED shopVars

\* lines 106-109
ResolveProducts(p) ==
    /\ pc[p] = "resolve"
    /\ local' = [local EXCEPT ![p].result = Resolve(catalog, local[p].suggestions),
                              ![p].outcome = "returned"]
    /\ pc' = [pc EXCEPT ![p] = "done"]
    /\ UNCHANGED <<catalog, store, storeUp, outages, nrec, ncall, ndel, redis, snap>>
    /\ UNCHANGED shopVars

\* ------------------------------------------------------ clear_purchases
\* the loop skipping the first product
ClearIdsMut(cat) == IF cat = {} THEN <<>> ELSE Tail(NameOrder(cat))

\* line 122: the IDs the loop runs over
ClearIds(cat) == NameOrder(cat)

\* lines 120-122: the guard and the query the loop iterates
clear_purchases(p, seq) ==
    /\ Enter(p, seq)
    /\ IF Degraded(redis[p])
       THEN /\ local' = [local EXCEPT ![p].op = "clear_purchases",
                                      ![p].outcome = "returned"]
            /\ pc' = [pc EXCEPT ![p] = "done"]
       ELSE LET ids == ClearIds(catalog) IN
            /\ local' = [local EXCEPT ![p].op = "clear_purchases",
                                      ![p].todo = ids,
                                      ![p].outcome =
                                          IF Len(ids) = 0 THEN "returned" ELSE "running"]
            /\ pc' = [pc EXCEPT ![p] = IF Len(ids) = 0 THEN "done" ELSE "clear"]
    /\ UNCHANGED <<catalog, store, storeUp, outages, nrec, ndel, redis>>
    /\ UNCHANGED shopVars

\* line 123, once per product
ClearDelete(p) ==
    /\ pc[p] = "clear"
    /\ IF storeUp
       THEN LET rest == Tail(local[p].todo) IN
            /\ store' = Put(store, get_product_key(Head(local[p].todo)), EmptyZSet)
            /\ local' = [local EXCEPT ![p].todo = rest,
                                      ![p].ncalls = @ + 1,
                                      ![p].outcome =
                                          IF Len(rest) = 0 THEN "returned" ELSE "running"]
            /\ pc' = [pc EXCEPT ![p] = IF Len(rest) = 0 THEN "done" ELSE "clear"]
       ELSE Raise(p)
    /\ UNCHANGED <<catalog, storeUp, outages, nrec, ncall, ndel, redis, snap>>
    /\ UNCHANGED shopVars

\* ------------------------------------------------------ the environment
\* a product is deleted in the admin; its order items go with it
\* (OrderItem.product: on_delete=CASCADE), the carts in sessions stay as they are
DeleteProduct ==
    /\ ndel < MaxDeleted
    /\ ndel' = ndel + 1
    /\ \E id \in catalog :
           /\ catalog' = catalog \ {id}
           /\ items' = SelectSeq(items, LAMBDA item : item.product # id)
    /\ UNCHANGED <<store, storeUp, outages, nrec, ncall, pc, redis, local, snap>>
    /\ UNCHANGED <<view, session, coupons, now, orders, req, tasks, prices>>

\* Redis becomes unreachable; its data stays
StoreDown ==
    /\ storeUp
    /\ outages < MaxOutages
    /\ storeUp' = FALSE
    /\ outages' = outages + 1
    /\ UNCHANGED <<catalog, store, nrec, ncall, ndel, pc, redis, local, snap>>
    /\ UNCHANGED shopVars

\* Redis is reachable again
StoreRecover ==
    /\ ~storeUp
    /\ storeUp' = TRUE
    /\ UNCHANGED <<catalog, store, outages, nrec, ncall, ndel, pc, redis, local, snap>>
    /\ UNCHANGED shopVars

Environment == DeleteProduct \/ StoreDown \/ StoreRecover

Step(p) ==
    \/ Construct(p) \/ Discard(p) \/ Return(p)
    \/ Zincrby(p)
    \/ ZrangeSingle(p) \/ Zunionstore(p) \/ Zrem(p) \/ Zrange(p) \/ Delete(p)
    \/ ResolveProducts(p)
    \/ ClearDelete(p)

\* requests interleaving freely, on a store that stays up and a catalog that stays as it is
Next ==
    \/ \E p \in Procs : Step(p)
    \/ \E p \in Procs : \E products \in ProductLists(MaxLen) :
           products_bought(p, products, FALSE, MaxRecords)
    \/ \E p \in Procs : \E products \in ProductLists(MaxLen) : \E k \in 1..MaxK :
           suggest_products_for(p, products, k, FALSE)
    \/ \E p \in Procs : clear_purchases(p, FALSE)

Spec == Init /\ [][Next]_vars

\* one Recommender call at a time, with store outages and products being deleted
NextSeq ==
    \/ \E p \in SeqProcs : Step(p)
    \/ \E p \in SeqProcs : \E products \in ProductLists(MaxBasket) :
           products_bought(p, products, TRUE, MaxRecords)
    \/ \E p \in SeqProcs : \E products \in ProductLists(MaxLen) : \E k \in 1..MaxK :
           suggest_products_for(p, products, k, TRUE)
    \/ \E p \in SeqProcs : clear_purchases(p, TRUE)
    \/ Environment

SeqSpec == Init /\ [][NextSeq]_vars

\* ------------------------------------------------------------ vocabulary
\* score(a -> b): the score of b under AffinityKey(a)
Score(st, a, b) == ZScore(Get(st, get_product_key(a)), Str(b))

\* the aggregate score of candidate c for the queried products X
RECURSIVE SumOver(_, _, _)
SumOver(st, X, c) ==
    IF X = {} THEN 0
    ELSE LET a == CHOOSE x \in X : TRUE
         IN Score(st, a, c) + SumOver(st, X \ {a}, c)

Distinct(seq) == \A m, n \in 1..Len(seq) : m # n => seq[m] # seq[n]

\* request p has come to the end of a call of method op
Ended(p, op) == pc[p] = "done" /\ local[p].op = op

\* ... by returning, on an engine that holds a connection
Returned(p, op) == Ended(p, op) /\ local[p].outcome = "returned" /\ redis[p]

\* ------------------------------------------------------------------- C1
\* the keys and members to compare, and the pairs the basket B names
C1_Keys(B) == DOMAIN store \cup DOMAIN snap \cup {get_product_key(a) : a \in B}

C1_Members(B, key) ==
    DOMAIN Get(store, key) \cup DOMAIN Get(snap, key) \cup {Str(b) : b \in B}

C1_IsPair(B, key, member) ==
    \E a \in B : \E b \in B \ {a} : key = get_product_key(a) /\ member = Str(b)

\* C1: when products_bought over a basket of distinct products has returned on a
\* reachable store, with no other call running, every score of the store is what it
\* was when the call began, plus exactly 1 where the key is AffinityKey(a) and the
\* member is b for two different products a, b of the basket.
C1_RecordAddsOnePerPair ==
    \A p \in SeqProcs :
        (Returned(p, "products_bought") /\ Distinct(local[p].product_ids)) =>
            LET B == SeqToSet(local[p].product_ids) IN
            \A key \in C1_Keys(B) : \A member \in C1_Members(B, key) :
                ZScore(Get(store, key), member) =
                    ZScore(Get(snap, key), member)
                        + (IF C1_IsPair(B, key, member) THEN 1 ELSE 0)

\* a basket of three distinct products was recorded on a store that already held scores
C1_Witness ==
    \E p \in SeqProcs :
        /\ Returned(p, "products_bought")
        /\ Distinct(local[p].product_ids)
        /\ Len(local[p].product_ids) = 3
        /\ local[p].ncalls = 6
        /\ snap # EmptyStore

\* ------------------------------------------------------------------- C2
\* C2: a multi-product suggest_products_for never returns one of the products it
\* was asked about, also when other calls run against the same store meanwhile.
C2_SuggestExcludesQuery ==
    \A p \in Procs :
        (Returned(p, "suggest_products_for") /\ Len(local[p].product_ids) > 1) =>
            SeqToSet(local[p].result) \cap SeqToSet(local[p].product_ids) = {}

\* ------------------------------------------------------------------- C3
\* C3: no sorted set under AffinityKey(p) ever has p as a member, and a
\* single-product suggest_products_for never returns the product it was asked about.
C3_NoSelfLoop ==
    /\ \A a \in ProductIds : Score(store, a, a) = 0
    /\ \A a \in ProductIds : Str(a) \notin DOMAIN Get(store, get_product_key(a))
    /\ \A p \in Procs :
           (Ended(p, "suggest_products_for") /\ Len(local[p].product_ids) = 1) =>
               local[p].product_ids[1] \notin SeqToSet(local[p].result)

\* a basket naming one product twice has been recorded next to stored scores
C3_Witness ==
    \E p \in Procs :
        /\ Returned(p, "products_bought")
        /\ Len(local[p].product_ids) = 2
        /\ ~Distinct(local[p].product_ids)
        /\ store # EmptyStore

\* ------------------------------------------------------------------- C4
\* C4: a call on an engine that connected at construction never ends by an
\* exception leaving the engine.
C4_NoExceptionEscapes ==
    \A p \in SeqProcs :
        (pc[p] = "done" /\ redis[p]) => local[p].outcome # "raised"

\* ------------------------------------------------------------------- C5
\* C5: a call on an engine that found the store unreachable at construction ends
\* by returning, with an empty result, without a single store call, and leaves
\* the store as it found it, whether or not the store is back by then.
C5_DegradedDoesNothing ==
    \A p \in SeqProcs :
        (pc[p] = "done" /\ ~redis[p]) =>
            /\ local[p].outcome = "returned"
            /\ local[p].result = <<>>
            /\ local[p].ncalls = 0
            /\ store = snap

\* products_bought was skipped on a degraded engine and the store, which holds
\* data, is reachable again
C5_Witness ==
    \E p \in SeqProcs :
        /\ Ended(p, "products_bought")
        /\ ~redis[p]
        /\ storeUp
        /\ store # EmptyStore

\* ------------------------------------------------------------------- C6
\* C6: when a suggest_products_for over several distinct products whose
\* zunionstore succeeded has ended, by returning or by raising, its transient key
\* is not in the store.
C6_TmpKeyReleased ==
    \A p \in SeqProcs :
        (/\ Ended(p, "suggest_products_for")
         /\ Len(local[p].product_ids) > 1
         /\ Distinct(local[p].product_ids)
         /\ local[p].ncalls >= 2) =>
            TmpKey(local[p].product_ids) \notin DOMAIN store

\* ------------------------------------------------------------------- C7
\* C7: suggest_products_for returns at most max_results products.
C7_AtMostK ==
    \A p \in Procs :
        Returned(p, "suggest_products_for") =>
            Len(local[p].result) <= local[p].max_results

\* a multi-product call returned max_results products although more candidates
\* than that were left after the queried products were removed
C7_Witness ==
    \E p \in Procs :
        LET l == local[p]
            keys == [n \in 1..Len(l.product_ids) |-> get_product_key(l.product_ids[n])]
            members == {Str(l.product_ids[n]) : n \in 1..Len(l.product_ids)}
        IN /\ Returned(p, "suggest_products_for")
           /\ Len(l.product_ids) > 1
           /\ Len(l.result) = l.max_results
           /\ Cardinality(DOMAIN ZRem(ZUnion(store, keys), members)) > l.max_results

\* ------------------------------------------------------------------- C8
\* the aggregate score of product c for the products request p asked about
C8_Agg(p, c) == SumOver(store, SeqToSet(local[p].product_ids), c)

C9_ClearIsTotal ==
    \A p \in SeqProcs :
        Returned(p, "clear_purchases") =>
            \A id \in catalog : \A k \in 1..MaxK :
                Resolve(catalog, RangeDesc(store, get_product_key(id), k)) = <<>>

\* clear_purchases returned after deleting the keys of a store that held scores
C9_Witness ==
    \E p \in SeqProcs :
        /\ Returned(p, "clear_purchases")
        /\ local[p].ncalls >= 2
        /\ \E a, b \in catalog : Score(snap, a, b) > 0

\* ------------------------------------------------------------------ C10
\* C10: when clear_purchases has returned on a reachable store, no AffinityKey is
\* left in the store.
C10_NoAffinityKeyLeft ==
    \A p \in SeqProcs :
        Returned(p, "clear_purchases") =>
            \A a \in ProductIds : get_product_key(a) \notin DOMAIN store


\* the AffinityKeys of a store
AffinityKeys(st) == {key \in DOMAIN st : key[1] = "product"}

\* C11: when suggest_products_for over one product or several has ended on a
\* reachable store, by returning or by raising, the store holds the same
\* AffinityKeys as when the call started and the same scores under each of them.
C11_SuggestKeepsAffinities ==
    \A p \in SeqProcs :
        (Ended(p, "suggest_products_for") /\ redis[p]) =>
            /\ AffinityKeys(store) = AffinityKeys(snap)
            /\ \A key \in AffinityKeys(store) : store[key] = snap[key]

\* a multi-product suggest_products_for has returned on a store that held scores
C11_Witness ==
    \E p \in SeqProcs :
        /\ Returned(p, "suggest_products_for")
        /\ Len(local[p].product_ids) > 1
        /\ local[p].ncalls = 4
        /\ AffinityKeys(snap) # {}
        /\ local[p].result # <<>>


\* request p is inside the multi-product branch of suggest_products_for
C12_InMulti(p) ==
    /\ local[p].op = "suggest_products_for"
    /\ Len(local[p].product_ids) > 1
    /\ pc[p] \in {"zunionstore", "zrem", "zrange", "delete"}

\* the decimal IDs of a list one after the other, in the order of the list
RECURSIVE C12_Flat(_)
C12_Flat(ids) ==
    IF Len(ids) = 0 THEN <<>>
    ELSE C12_Flat(SubSeq(ids, 1, Len(ids) - 1)) \o Str(ids[Len(ids)])

C13_Ranked(p) ==
    [n \in 1..Len(local[p].suggestions) |-> ParseInt(local[p].suggestions[n])]

\* a sequence restricted to the elements of a set, order kept
RECURSIVE C13_Restrict(_, _)
C13_Restrict(seq, S) ==
    IF Len(seq) = 0 THEN <<>>
    ELSE IF Head(seq) \in S THEN <<Head(seq)>> \o C13_Restrict(Tail(seq), S)
         ELSE C13_Restrict(Tail(seq), S)

\* C13: the products suggest_products_for returns are the IDs it read from the
\* store, in that rank order, without those the catalog no longer holds: every
\* read ID still in the catalog is returned, nothing else is, and a
\* single-product call read exactly the first max_results of the ranking.
C13_RankOrderRestricted ==
    \A p \in SeqProcs :
        Returned(p, "suggest_products_for") =>
            LET ranked == C13_Ranked(p)
                got == SeqToSet(local[p].result)
            IN /\ local[p].result = C13_Restrict(ranked, got)
               /\ SeqToSet(ranked) \cap catalog \subseteq got
               /\ got \subseteq SeqToSet(ranked)
               /\ Len(local[p].product_ids) = 1 =>
                      local[p].suggestions =
                          SubSeq(ZRevRange(Get(store, get_product_key(local[p].product_ids[1]))),
                                 1, Len(local[p].suggestions))

\* a call read max_results IDs, one of them of a deleted product, while a
\* lower-ranked candidate that still exists stayed out of the result
C13_Witness ==
    \E p \in SeqProcs :
        /\ Returned(p, "suggest_products_for")
        /\ Len(local[p].product_ids) = 1
        /\ Len(local[p].suggestions) = local[p].max_results
        /\ Len(local[p].result) < Len(local[p].suggestions)
        /\ \E c \in catalog :
               /\ Score(store, local[p].product_ids[1], c) > 0
               /\ c \notin SeqToSet(C13_Ranked(p))


\* request p holds an engine whose construction found the store unreachable
C14_IsDegraded(p) == pc[p] # "idle" /\ ~redis[p]

\* C14: the engine connects once, at construction: it is degraded exactly when
\* the store was unreachable then, and a degraded engine stays degraded until it
\* is dropped; each of its calls ends at once with no store command, no
\* exception, no product and the store as it was, also when the store is
\* reachable again.
C14_DegradedForLife ==
    [][\A p \in SeqProcs :
           /\ (pc[p] = "idle" /\ pc'[p] # "idle") => redis'[p] = storeUp
           /\ C14_IsDegraded(p) =>
                  \/ pc'[p] = "idle"
                  \/ /\ C14_IsDegraded(p)'
                     /\ pc'[p] \in {"ready", "done"}
                     /\ store' = store
                     /\ local'[p].ncalls = 0
                     /\ local'[p].outcome \in {"none", "returned"}
                     /\ local'[p].result = <<>>]_vars

\* a degraded engine has ended a clear_purchases while the store is reachable
\* and holds scores
C14_Witness ==
    \E p \in SeqProcs :
        /\ C14_IsDegraded(p)
        /\ Ended(p, "clear_purchases")
        /\ storeUp
        /\ AffinityKeys(store) # {}


\* request p takes a step of clear_purchases that deletes the key of product a
C15_ClearDeletes(p, a) ==
    /\ pc[p] = "clear"
    /\ Head(local[p].todo) = a
    /\ get_product_key(a) \notin DOMAIN store'

\* C15: in every step, a score(a -> b) that gets lower or disappears does so in
\* a step of clear_purchases that deletes the whole key of a; no step of
\* products_bought or suggest_products_for lowers or removes a score.
C15_ScoresOnlyDropByClear ==
    [][\A a, b \in ProductIds :
           Score(store', a, b) < Score(store, a, b) =>
               \E p \in Procs : C15_ClearDeletes(p, a)]_vars

\* clear_purchases has deleted the key of a product that others were bought
\* with, and has not yet reached the keys of those
C15_Witness ==
    \E p \in Procs :
        /\ pc[p] = "clear"
        /\ local[p].ncalls >= 1
        /\ \A q \in Procs : local[q].op # "products_bought"
        /\ \E a, b \in ProductIds :
               Score(store, a, b) = 0 /\ Score(store, b, a) > 0


\* ------------------------------------------------- the worked scenarios
\* the product sets a caller hands over, listed in any order
ProductSets(maxlen) == {products \in ProductLists(maxlen) : Distinct(products)}

\* one worker on a store that stays up and a catalog that stays as it is:
\* baskets of distinct products are recorded, suggestions asked for with
\* max_results = ScenarioK, the scores cleared
NextScenario ==
    \/ \E p \in SeqProcs : Step(p)
    \/ \E p \in SeqProcs : \E products \in ProductSets(MaxBasket) :
           products_bought(p, products, TRUE, MaxScenarioRecords)
    \/ \E p \in SeqProcs : \E products \in ProductSets(MaxLen) :
           suggest_products_for(p, products, ScenarioK, TRUE)
    \/ \E p \in SeqProcs : clear_purchases(p, TRUE)

ScenarioSpec == Init /\ [][NextScenario]_vars

\* the store holds AffinityMaps only, with exactly the scores listed as
\* <<a, b, score(a -> b)>>
HasScores(st, scores) ==
    /\ DOMAIN st = AffinityKeys(st)
    /\ \A a, b \in ProductIds :
           Score(st, a, b) =
               IF \E t \in scores : t[1] = a /\ t[2] = b
               THEN (CHOOSE t \in scores : t[1] = a /\ t[2] = b)[3]
               ELSE 0

\* the store after the one basket {1,2,3}
C16_Store(st) ==
    HasScores(st, {<<1, 2, 1>>, <<1, 3, 1>>, <<2, 1, 1>>, <<2, 3, 1>>,
                   <<3, 1, 1>>, <<3, 2, 1>>})

\* C16: on a store that was empty, products_bought over products 1, 2, 3 issues
\* exactly 6 zincrby and leaves score 1 on every ordered pair; on that store
\* suggest_products_for([1], 5) returns <<2, 3>> or <<3, 2>>, and
\* suggest_products_for over products 1 and 2 with max_results 5 returns <<3>>.
C16_OneBasketOfThree ==
    \A p \in SeqProcs :
        /\ (/\ Returned(p, "products_bought")
            /\ Len(local[p].product_ids) = 3
            /\ SeqToSet(local[p].product_ids) = {1, 2, 3})
           => /\ local[p].ncalls = 6
              /\ snap = EmptyStore => C16_Store(store)
        /\ (/\ Returned(p, "suggest_products_for")
            /\ local[p].max_results = 5
            /\ C16_Store(snap))
           => /\ local[p].product_ids = <<1>> =>
                     local[p].result \in {<<2, 3>>, <<3, 2>>}
              /\ SeqToSet(local[p].product_ids) = {1, 2} =>
                     local[p].result = <<3>>

\* suggest_products_for over products 1 and 2 has returned on the store left by
\* the basket {1,2,3}
C16_Witness ==
    \E p \in SeqProcs :
        /\ Returned(p, "suggest_products_for")
        /\ local[p].max_results = 5
        /\ SeqToSet(local[p].product_ids) = {1, 2}
        /\ C16_Store(snap)
        /\ nrec = 1

\* the stores after the baskets {1,2}; {1,2}, {1,3}; {1,2}, {1,3}, {1,2}
C17_Store1(st) == HasScores(st, {<<1, 2, 1>>, <<2, 1, 1>>})

C17_Store2(st) ==
    HasScores(st, {<<1, 2, 1>>, <<2, 1, 1>>, <<1, 3, 1>>, <<3, 1, 1>>})

C17_Store3(st) ==
    HasScores(st, {<<1, 2, 2>>, <<2, 1, 2>>, <<1, 3, 1>>, <<3, 1, 1>>})

\* request p has returned from products_bought over the two products of B
C17_Recorded(p, B) ==
    /\ Returned(p, "products_bought")
    /\ Len(local[p].product_ids) = 2
    /\ SeqToSet(local[p].product_ids) = B

\* C17: baskets {1,2}, then {1,3}, recorded on an empty store leave score 1 on
\* 1 -> 2 and 1 -> 3, and suggest_products_for([1], 5) then returns <<2, 3>> or
\* <<3, 2>>; a third basket {1,2} raises the score of 1 -> 2 to 2, and
\* suggest_products_for([1], 5) then returns exactly <<2, 3>>.
C17_ThreeBaskets ==
    \A p \in SeqProcs :
        /\ (C17_Recorded(p, {1, 2}) /\ snap = EmptyStore) => C17_Store1(store)
        /\ (C17_Recorded(p, {1, 3}) /\ C17_Store1(snap)) => C17_Store2(store)
        /\ (C17_Recorded(p, {1, 2}) /\ C17_Store2(snap)) => C17_Store3(store)
        /\ (/\ Returned(p, "suggest_products_for")
            /\ local[p].max_results = 5
            /\ local[p].product_ids = <<1>>)
           => /\ C17_Store2(snap) => local[p].result \in {<<2, 3>>, <<3, 2>>}
              /\ C17_Store3(snap) => local[p].result = <<2, 3>>

\* suggest_products_for([1], 5) has returned after the three baskets
C17_Witness ==
    \E p \in SeqProcs :
        /\ Returned(p, "suggest_products_for")
        /\ local[p].max_results = 5
        /\ local[p].product_ids = <<1>>
        /\ C17_Store3(snap)
        /\ nrec = 3


\* ------------------------------------------------------------- the cart
\* PRODUCT_QUANTITY_CHOICES: the quantities the add form accepts are 1..MaxChoice
MaxChoice == 20

\* product.price of the instance cart_add has just fetched
ProductPrice(product_id) == prices[product_id]

\* Cart.__init__: an absent or empty cart is stored in the session as {}
OpenCart(sess) == [sess EXCEPT !.has_cart = TRUE]

\* position of the line of a product in the cart; 0 when it has none
LineOf(cart, product_id) ==
    IF \E n \in 1..Len(cart) : cart[n].product_id = product_id
    THEN CHOOSE n \in 1..Len(cart) : cart[n].product_id = product_id
    ELSE 0

\* an add that refreshes the stored price of the line it finds
CartAddMut(cart, product, quantity, override_quantity) ==
    LET product_id == Str(product)
        line == [product_id |-> product_id, quantity |-> 0,
                 price |-> Str(ProductPrice(product))]
        lines == IF \E n \in 1..Len(cart) : cart[n].product_id = product_id
                 THEN [n \in 1..Len(cart) |->
                          IF cart[n].product_id = product_id
                          THEN [cart[n] EXCEPT !.price = line.price]
                          ELSE cart[n]]
                 ELSE Append(cart, line)
    IN [n \in 1..Len(lines) |->
           IF lines[n].product_id = product_id
           THEN [lines[n] EXCEPT !.quantity = IF override_quantity THEN quantity
                                              ELSE @ + quantity]
           ELSE lines[n]]

\* Cart.add
CartAdd(cart, product, quantity, override_quantity) ==
    LET product_id == Str(product)
        lines == IF LineOf(cart, product_id) = 0
                 THEN Append(cart, [product_id |-> product_id, quantity |-> 0,
                                    price |-> Str(ProductPrice(product))])
                 ELSE cart
        n == LineOf(lines, product_id)
    IN [lines EXCEPT ![n].quantity = IF override_quantity THEN quantity
                                     ELSE @ + quantity]

\* Cart.__init__ writes the cart key of the session (which marks the session
\* modified) when the session has no cart or an empty one
Opens(sess) == sess.cart = <<>>

\* the record of a request to a cart, coupon, order or webhook view, with its
\* number, whether its form was valid, how it was answered and whether
\* request.session.modified was set when it was
Request(name, args, valid, status, modified) ==
    [seq |-> req.seq + 1, name |-> name, args |-> args, valid |-> valid,
     status |-> status, modified |-> modified]

\* cart_add: 404 for a product that does not exist; the line is added or
\* updated when the form is valid; redirect to the cart page either way
cart_add(product_id, quantity, override, max_quantity) ==
    /\ req.seq < MaxRequests
    /\ IF product_id \notin catalog
       THEN /\ session' = OpenCart(session)
            /\ req' = Request("cart_add", <<product_id, quantity, override>>,
                              FALSE, "404", Opens(session))
       ELSE IF quantity \notin 1..MaxChoice
       THEN /\ session' = OpenCart(session)
            /\ req' = Request("cart_add", <<product_id, quantity, override>>,
                              FALSE, "redirect", Opens(session))
       ELSE LET cart == CartAdd(session.cart, product_id, quantity, override) IN
            /\ \A n \in 1..Len(cart) : cart[n].quantity <= max_quantity
            /\ session' = [OpenCart(session) EXCEPT !.cart = cart]
            /\ req' = Request("cart_add", <<product_id, quantity, override>>,
                              TRUE, "redirect", TRUE)
    /\ UNCHANGED engineVars
    /\ UNCHANGED <<view, coupons, now, orders, items, tasks, prices>>

\* ------------------------------------------------- the recommending views
\* product_detail: suggest_products_for([product], 2)
ProductDetailMaxResults == 2

\* cart_detail: suggest_products_for(cart_products, max_results=4)
CartDetailMaxResults == 4

\* [item["product"] for item in cart]: the products of the lines, in cart order
CartProducts(cart) == [n \in 1..Len(cart) |-> ParseInt(cart[n].product_id)]

\* Cart.__iter__ attaches a product to the lines whose product exists; reading
\* item["product"] of another line raises KeyError
CartResolves(cart, cat) == \A n \in 1..Len(cart) : ParseInt(cart[n].product_id) \in cat

\* product_detail up to the try block: the product is looked up
product_detail(p, product_id) ==
    /\ pc[p] = "idle"
    /\ view[p].name = "none"
    /\ product_id \in catalog
    /\ view' = [view EXCEPT ![p] = [NoView EXCEPT !.name = "product_detail",
                                                  !.products = <<product_id>>,
                                                  !.status = "serving"]]
    /\ UNCHANGED engineVars
    /\ UNCHANGED <<session, coupons, now, orders, items, req, tasks, prices>>

\* product_detail, line 67, inside the try block
ProductDetailSuggest(p) ==
    /\ view[p].name = "product_detail"
    /\ view[p].status = "serving"
    /\ suggest_products_for(p, view[p].products, ProductDetailMaxResults, TRUE)

\* product_detail, lines 68-77: except RedisError gives the empty list; render
ProductDetailRender(p) ==
    /\ view[p].name = "product_detail"
    /\ view[p].status = "serving"
    /\ pc[p] = "done"
    /\ view' = [view EXCEPT
           ![p].status = "rendered",
           ![p].raised = (local[p].outcome = "raised"),
           ![p].recommended = IF local[p].outcome = "raised" THEN <<>>
                              ELSE local[p].result]
    /\ pc' = [pc EXCEPT ![p] = "idle"]
    /\ redis' = [redis EXCEPT ![p] = FALSE]
    /\ local' = [local EXCEPT ![p] = IdleLocal]
    /\ snap' = EmptyStore
    /\ UNCHANGED <<catalog, store, storeUp, outages, nrec, ncall, ndel>>
    /\ UNCHANGED <<session, coupons, now, orders, items, req, tasks, prices>>

\* cart_detail up to line 90: the cart is opened and its products are listed;
\* the Recommender of line 89 is replaced by the one of line 93
cart_detail(p) ==
    /\ pc[p] = "idle"
    /\ view[p].name = "none"
    /\ IF CartResolves(session.cart, catalog)
       THEN /\ view' = [view EXCEPT ![p] =
                   [NoView EXCEPT !.name = "cart_detail",
                                  !.products = CartProducts(session.cart),
                                  !.status = "serving"]]
            /\ session' = OpenCart(session)
       ELSE /\ view' = [view EXCEPT ![p] = [NoView EXCEPT !.name = "cart_detail",
                                                          !.status = "error"]]
            /\ session' = session
    /\ UNCHANGED engineVars
    /\ UNCHANGED <<coupons, now, orders, items, req, tasks, prices>>

\* cart_detail, lines 99-100, after the try block
CartDetailSuggest(p) ==
    /\ view[p].name = "cart_detail"
    /\ view[p].status = "serving"
    /\ view[p].products # <<>>
    /\ suggest_products_for(p, view[p].products, CartDetailMaxResults, TRUE)

\* cart_detail, lines 101-109: render; nothing catches an exception of line 100
CartDetailRender(p) ==
    /\ view[p].name = "cart_detail"
    /\ view[p].status = "serving"
    /\ \/ pc[p] = "done"
       \/ pc[p] = "ready" /\ view[p].products = <<>>
    /\ view' = [view EXCEPT
           ![p].status = IF local[p].outcome = "raised" THEN "error" ELSE "rendered",
           ![p].raised = (local[p].outcome = "raised"),
           ![p].recommended = IF local[p].outcome = "raised" THEN <<>>
                              ELSE local[p].result]
    /\ pc' = [pc EXCEPT ![p] = "idle"]
    /\ redis' = [redis EXCEPT ![p] = FALSE]
    /\ local' = [local EXCEPT ![p] = IdleLocal]
    /\ snap' = EmptyStore
    /\ UNCHANGED <<catalog, store, storeUp, outages, nrec, ncall, ndel>>
    /\ UNCHANGED <<session, coupons, now, orders, items, req, tasks, prices>>

\* the response has left
ViewDone(p) ==
    /\ view[p].status \in {"rendered", "error"}
    /\ view' = [view EXCEPT ![p] = NoView]
    /\ UNCHANGED engineVars
    /\ UNCHANGED <<session, coupons, now, orders, items, req, tasks, prices>>

\* the worker that records paid orders, between the pages it does not serve
TaskCall(p) ==
    /\ view[p].name = "none"
    /\ \/ Return(p)
       \/ Discard(p)
       \/ \E products \in ProductSets(MaxLen) :
              products_bought(p, products, TRUE, MaxRecords)

\* Recommender.__init__ and the store commands of a running method
EngineStep(p) ==
    \/ Construct(p)
    \/ Zincrby(p)
    \/ ZrangeSingle(p) \/ Zunionstore(p) \/ Zrem(p) \/ Zrange(p) \/ Delete(p)
    \/ ResolveProducts(p)

\* one customer filling a cart and opening product and cart pages, paid orders
\* being recorded in between, on a store that can go down
NextView ==
    \/ \E p \in SeqProcs : EngineStep(p)
    \/ \E p \in SeqProcs : TaskCall(p)
    \/ \E p \in SeqProcs : \E product_id \in ProductIds : product_detail(p, product_id)
    \/ \E p \in SeqProcs : ProductDetailSuggest(p) \/ ProductDetailRender(p)
    \/ \E p \in SeqProcs : cart_detail(p)
    \/ \E p \in SeqProcs : CartDetailSuggest(p) \/ CartDetailRender(p)
    \/ \E p \in SeqProcs : ViewDone(p)
    \/ \E product_id \in ProductIds : cart_add(product_id, 1, TRUE, MaxQuantity)
    \/ StoreDown \/ StoreRecover

ViewSpec == Init /\ [][NextView]_vars

\* C18: a page whose suggest_products_for raised a Redis error is rendered all
\* the same, with an empty recommended_products.
C18_PageRendersDespiteStoreFailure ==
    \A p \in SeqProcs :
        (view[p].status \in {"rendered", "error"} /\ view[p].raised) =>
            /\ view[p].status = "rendered"
            /\ view[p].recommended = <<>>

\* C18 for product_detail alone: the page is rendered, with an empty list when
\* suggest_products_for raised
C18_ProductDetailRenders ==
    \A p \in SeqProcs :
        (view[p].name = "product_detail" /\ view[p].status # "serving") =>
            /\ view[p].status = "rendered"
            /\ view[p].raised => view[p].recommended = <<>>


\* ----------------------------------------------------- coupons and orders
\* Cart.remove: the line of the product is deleted if there is one
CartRemove(cart, product) ==
    SelectSeq(cart, LAMBDA line : line.product_id # Str(product))

\* cart_remove: 404 for a product that does not exist
cart_remove(product_id) ==
    /\ req.seq < MaxRequests
    /\ IF product_id \notin catalog
       THEN /\ session' = OpenCart(session)
            /\ req' = Request("cart_remove", <<product_id>>, FALSE, "404",
                              Opens(session))
       ELSE /\ session' = [OpenCart(session) EXCEPT
                               !.cart = CartRemove(session.cart, product_id)]
            /\ req' = Request("cart_remove", <<product_id>>, TRUE, "redirect",
                              \/ Opens(session)
                              \/ LineOf(session.cart, Str(product_id)) # 0)
    /\ UNCHANGED engineVars
    /\ UNCHANGED <<view, coupons, now, orders, items, tasks, prices>>

\* the codes a customer submits; the empty one fails CouponApplyForm (code is
\* a required CharField)
Codes == {"", "save10", "OFF20", "none"}

\* the lower-case form of a code: what code__iexact compares
Lower(code) ==
    CASE code = "SAVE10" -> "save10"
      [] code = "OFF20" -> "off20"
      [] OTHER -> code

\* Coupon.objects.get(code__iexact=code, valid_from__lte=now, valid_to__gte=now,
\* active=True): the IDs of the rows that match
MatchingCoupons(code, t) ==
    {id \in DOMAIN coupons :
        /\ Lower(coupons[id].code) = Lower(code)
        /\ coupons[id].valid_from <= t
        /\ coupons[id].valid_to >= t
        /\ coupons[id].active}

\* coupon_apply: with a valid form the session gets the ID of the matching
\* coupon, or None when none matches; with an invalid form nothing is stored
coupon_apply(code) ==
    /\ req.seq < MaxRequests
    /\ IF code = ""
       THEN /\ session' = session
            /\ req' = Request("coupon_apply", <<code>>, FALSE, "redirect", FALSE)
       ELSE /\ session' =
                   [session EXCEPT !.coupon_id =
                        IF MatchingCoupons(code, now) = {} THEN NoCoupon
                        ELSE CHOOSE id \in MatchingCoupons(code, now) : TRUE]
            /\ req' = Request("coupon_apply", <<code>>, TRUE, "redirect", TRUE)
    /\ UNCHANGED engineVars
    /\ UNCHANGED <<view, coupons, now, orders, items, tasks, prices>>

\* Cart.coupon: the coupon row of the session's coupon_id, if any
CartCoupon(sess) ==
    IF sess.coupon_id # NoCoupon /\ sess.coupon_id \in DOMAIN coupons
    THEN sess.coupon_id ELSE NoCoupon

\* the lines Cart.__iter__ yields before order_create reads item["product"] of
\* a line whose product is gone: all of them when every product exists
RECURSIVE ResolvedPrefix(_, _)
ResolvedPrefix(cart, cat) ==
    IF Len(cart) = 0 \/ ParseInt(Head(cart).product_id) \notin cat THEN <<>>
    ELSE <<Head(cart)>> \o ResolvedPrefix(Tail(cart), cat)

\* OrderItem.objects.create(order=order, product=item["product"],
\* price=item["price"], quantity=item["quantity"]) for each line
OrderItems(order_id, lines) ==
    [n \in 1..Len(lines) |->
        [order |-> order_id, product |-> ParseInt(lines[n].product_id),
         price |-> ParseInt(lines[n].price), quantity |-> lines[n].quantity]]

\* order_create: GET and an invalid POST render the form; a valid POST saves the
\* order, creates its items, clears the cart and stores order_id.  Rows are
\* committed as they are written; an exception leaves them and answers 500,
\* and the session of a 500 response is not saved.
order_create(method, valid) ==
    /\ req.seq < MaxRequests
    /\ IF method = "GET" \/ ~valid
       THEN /\ session' = OpenCart(session)
            /\ req' = Request("order_create", <<method>>, FALSE, "render",
                              Opens(session))
            /\ UNCHANGED <<orders, items>>
       ELSE LET coupon == CartCoupon(session)
                order == [coupon |-> coupon,
                          discount |-> IF coupon = NoCoupon THEN 0
                                       ELSE coupons[coupon].discount,
                          paid |-> FALSE, stripe_id |-> ""]
                order_id == Len(orders) + 1
                lines == ResolvedPrefix(session.cart, catalog)
            IN /\ Len(orders) < MaxOrders
               /\ orders' = Append(orders, order)
               /\ items' = items \o OrderItems(order_id, lines)
               /\ IF Len(lines) = Len(session.cart)
                  THEN /\ session' = [session EXCEPT !.has_cart = FALSE,
                                                     !.cart = <<>>,
                                                     !.order_id = order_id]
                       /\ req' = Request("order_create", <<method>>, TRUE,
                                         "redirect", TRUE)
                  ELSE /\ session' = session
                       /\ req' = Request("order_create", <<method>>, TRUE,
                                         "error", Opens(session))
    /\ UNCHANGED engineVars
    /\ UNCHANGED <<view, coupons, now, tasks, prices>>

\* time passes
Tick ==
    /\ now < MaxTime
    /\ now' = now + 1
    /\ UNCHANGED engineVars
    /\ UNCHANGED <<view, session, coupons, orders, items, req, tasks, prices>>

\* a coupon is switched off or on in the admin
SetCouponActive(id) ==
    /\ coupons' = [coupons EXCEPT ![id].active = ~@]
    /\ UNCHANGED engineVars
    /\ UNCHANGED <<view, session, now, orders, items, req, tasks, prices>>

\* one customer's cart, coupon and order requests, while time passes, coupons
\* are edited and products deleted
NextShop ==
    \/ \E product_id \in ProductIds : \E quantity \in 0..MaxQuantity :
           \E override \in BOOLEAN :
               cart_add(product_id, quantity, override, MaxQuantity)
    \/ \E product_id \in ProductIds : cart_remove(product_id)
    \/ \E code \in Codes : coupon_apply(code)
    \/ \E method \in {"GET", "POST"} : \E valid \in BOOLEAN : order_create(method, valid)
    \/ Tick
    \/ \E id \in DOMAIN coupons : SetCouponActive(id)
    \/ DeleteProduct

ShopSpec == Init /\ [][NextShop]_vars

\* the step is a request to the named view
Serves(name) == req'.seq # req.seq /\ req'.name = name

\* C19: after coupon_apply the session's coupon_id is the ID of the active
\* coupon the code names inside its validity window, and None in every other
\* case, the one of an invalid form included.
C19_CouponApplySetsOrRemoves ==
    [][Serves("coupon_apply") =>
           LET named == MatchingCoupons(req'.args[1], now) IN
           IF req'.valid /\ named # {}
           THEN session'.coupon_id \in named
           ELSE session'.coupon_id = NoCoupon]_vars

\* C20: a valid order_create POST creates one order with the session's coupon
\* and its discount, one OrderItem per cart line with the line's product, price
\* and quantity, leaves a session without cart lines and with the order's ID;
\* an invalid POST creates no order and leaves the cart as it was.
C20_OrderCreate ==
    [][(Serves("order_create") /\ req'.args = <<"POST">>) =>
           IF req'.valid
           THEN /\ Len(orders') = Len(orders) + 1
                /\ orders'[Len(orders')].coupon = CartCoupon(session)
                /\ orders'[Len(orders')].discount =
                       IF CartCoupon(session) = NoCoupon THEN 0
                       ELSE coupons[CartCoupon(session)].discount
                /\ Len(items') = Len(items) + Len(session.cart)
                /\ \A n \in 1..Len(session.cart) :
                       LET item == items'[Len(items) + n]
                           line == session.cart[n]
                       IN /\ item.order = Len(orders')
                          /\ Str(item.product) = line.product_id
                          /\ Str(item.price) = line.price
                          /\ item.quantity = line.quantity
                /\ OpenCart(session').cart = <<>>
                /\ session'.order_id = Len(orders')
           ELSE /\ orders' = orders
                /\ items' = items
                /\ session'.cart = session.cart]_vars


\* ------------------------------------------------------ the Stripe webhook
\* What stripe.Webhook.construct_event makes of a delivery: an event ("ok"),
\* ValueError ("payload") or SignatureVerificationError ("signature"); a request
\* without the Stripe-Signature header ("noheader") fails before it.
Verifications == {"ok", "payload", "signature", "noheader"}

EventTypes == {"checkout.session.completed", "payment_intent.succeeded"}

Modes == {"payment", "subscription"}

PaymentStatuses == {"paid", "unpaid"}

\* session.payment_intent
PaymentIntents == {"pi_1", "pi_2"}

\* session.client_reference_id: None (0), or an order ID, stored or not
References == 0..(MaxOrders + 1)

\* the drop of one of the three conditions of the event
QualifiesMut(type, mode, payment_status) ==
    type = "checkout.session.completed" /\ mode = "payment"

\* the event is a completed checkout session of a payment that is paid
Qualifies(type, mode, payment_status) ==
    /\ type = "checkout.session.completed"
    /\ mode = "payment"
    /\ payment_status = "paid"

\* stripe_webhook(request): one delivery
stripe_webhook(verified, type, mode, payment_status, reference, payment_intent) ==
    LET args == <<verified, type, mode, payment_status, reference, payment_intent>> IN
    /\ req.seq < MaxRequests
    /\ IF verified = "noheader"
       THEN /\ req' = Request("stripe_webhook", args, FALSE, "error", FALSE)
            /\ UNCHANGED <<orders, tasks>>
       ELSE IF verified # "ok"
       THEN /\ req' = Request("stripe_webhook", args, FALSE, "400", FALSE)
            /\ UNCHANGED <<orders, tasks>>
       ELSE IF ~Qualifies(type, mode, payment_status)
       THEN /\ req' = Request("stripe_webhook", args, TRUE, "200", FALSE)
            /\ UNCHANGED <<orders, tasks>>
       ELSE IF reference \notin DOMAIN orders
       THEN /\ req' = Request("stripe_webhook", args, TRUE, "404", FALSE)
            /\ UNCHANGED <<orders, tasks>>
       ELSE /\ orders' = [orders EXCEPT ![reference].paid = TRUE,
                                        ![reference].stripe_id = payment_intent]
            /\ tasks' = Append(tasks, reference)
            /\ req' = Request("stripe_webhook", args, TRUE, "200", FALSE)
    /\ UNCHANGED <<view, session, coupons, now, items, prices>>
    /\ UNCHANGED engineVars

\* a customer who fills a cart and orders, and Stripe's deliveries
NextPayment ==
    \/ \E product_id \in ProductIds : cart_add(product_id, 1, TRUE, MaxQuantity)
    \/ order_create("POST", TRUE)
    \/ \E verified \in Verifications : \E type \in EventTypes : \E mode \in Modes :
           \E payment_status \in PaymentStatuses : \E reference \in References :
               \E payment_intent \in PaymentIntents :
                   stripe_webhook(verified, type, mode, payment_status,
                                  reference, payment_intent)

PaymentSpec == Init /\ [][NextPayment]_vars

\* C21: a delivery changes an order only when its signature verifies and it is
\* a checkout.session.completed event of mode payment with payment_status paid,
\* and then it marks that order paid and stores the payment ID; an invalid
\* payload or signature answers 400 and an unknown order 404, both changing no
\* order and launching no task; no delivery takes a paid order back to unpaid.
C21_WebhookMarksPaid ==
    [][Serves("stripe_webhook") =>
           LET verified == req'.args[1]
               qualifies == /\ req'.args[2] = "checkout.session.completed"
                            /\ req'.args[3] = "payment"
                            /\ req'.args[4] = "paid"
               reference == req'.args[5]
           IN  /\ orders' # orders =>
                      /\ verified = "ok" /\ qualifies /\ reference \in DOMAIN orders
                      /\ orders' = [orders EXCEPT ![reference].paid = TRUE,
                                                  ![reference].stripe_id = req'.args[6]]
               /\ tasks' # tasks => verified = "ok" /\ qualifies
               /\ verified \in {"payload", "signature"} =>
                      req'.status = "400" /\ orders' = orders /\ tasks' = tasks
               /\ (verified = "ok" /\ qualifies /\ reference \notin DOMAIN orders) =>
                      req'.status = "404" /\ orders' = orders /\ tasks' = tasks
               /\ req'.status \in {"400", "404"} => orders' = orders /\ tasks' = tasks
               /\ DOMAIN orders' = DOMAIN orders
               /\ \A id \in DOMAIN orders : orders[id].paid => orders'[id].paid]_vars

\* a paid order with its payment ID, after a later delivery that was answered 404
C21_Witness ==
    /\ req.name = "stripe_webhook" /\ req.status = "404"
    /\ \E id \in DOMAIN orders : orders[id].paid /\ orders[id].stripe_id = "pi_2"
    /\ Len(tasks) = 1


\* the number of payment_completed tasks launched for the order
Launches(order_id) == Cardinality({i \in DOMAIN tasks : tasks[i] = order_id})

\* C26: for each order the post-payment task is launched at most once, whatever
\* deliveries arrive, repeated deliveries of the event of a paid order included.
C26_TaskLaunchedOnce == \A order_id \in DOMAIN orders : Launches(order_id) <= 1


\* ------------------------------------------------------ the cart requests
\* what a customer posts as quantity: the ends of the form's choices, and a
\* value on either side of them
Quantities == {0, 1, MaxChoice, MaxChoice + 1}

\* a price the admin changes a product to
SalePrice == 50

\* the price of a product is edited in the admin (list_editable)
SetPrice(product_id) ==
    /\ product_id \in catalog
    /\ prices[product_id] # SalePrice
    /\ prices' = [prices EXCEPT ![product_id] = SalePrice]
    /\ UNCHANGED engineVars
    /\ UNCHANGED <<view, session, coupons, now, orders, items, req, tasks>>

\* one customer adding to and removing from the cart while prices are edited
NextCart ==
    \/ \E product_id \in ProductIds : \E quantity \in Quantities :
           \E override \in BOOLEAN :
               cart_add(product_id, quantity, override, MaxCartQuantity)
    \/ \E product_id \in ProductIds : cart_remove(product_id)
    \/ \E product_id \in ProductIds : SetPrice(product_id)

CartSpec == Init /\ [][NextCart]_vars

\* C22: a valid cart_add of a product without a line appends a line with the
\* product's current price and the quantity q; for a product with a line, the
\* line's quantity becomes q with override and old quantity + q without, and its
\* stored price stays; every other line is unchanged and the session is marked
\* modified.
C22_CartAdd ==
    [][(Serves("cart_add") /\ req'.valid) =>
           LET product_id == Str(req'.args[1])
               q == req'.args[2]
               old == session.cart
               new == session'.cart
               n == LineOf(old, product_id)
           IN  /\ n = 0 =>
                      /\ Len(new) = Len(old) + 1
                      /\ new[Len(new)] = [product_id |-> product_id, quantity |-> q,
                                          price |-> Str(prices[req'.args[1]])]
                      /\ \A m \in 1..Len(old) : new[m] = old[m]
               /\ n # 0 =>
                      /\ Len(new) = Len(old)
                      /\ new[n].product_id = product_id
                      /\ new[n].quantity = IF req'.args[3] THEN q
                                           ELSE old[n].quantity + q
                      /\ new[n].price = old[n].price
                      /\ \A m \in 1..Len(old) : m # n => new[m] = old[m]
               /\ req'.modified]_vars

\* quantities were summed on a line whose stored price is no longer the
\* product's price, next to another line
C22_Witness ==
    /\ req.name = "cart_add" /\ req.valid /\ ~req.args[3]
    /\ Len(session.cart) = 2
    /\ \E n \in 1..Len(session.cart) :
           /\ session.cart[n].product_id = Str(req.args[1])
           /\ session.cart[n].quantity > req.args[2]
           /\ session.cart[n].price # Str(prices[req.args[1]])


\* C30: whatever cart_add and cart_remove requests were served, every line of
\* the cart has a quantity among the choices of the add form, 1 to 20.
C30_QuantityWithinChoices ==
    \A n \in 1..Len(session.cart) : session.cart[n].quantity \in 1..MaxChoice


\* ------------------------------------------------ overlapping suggestions
\* request q has built its aggregate and has not read it yet
C23_BeforeRead(q) ==
    /\ local[q].op = "suggest_products_for"
    /\ Len(local[q].product_ids) > 1
    /\ pc[q] \in {"zrem", "zrange"}

\* what a multi-product call over the list would return from the store alone
C23_Complete(st, product_ids, max_results) ==
    LET keys == [n \in 1..Len(product_ids) |-> get_product_key(product_ids[n])]
        members == {Str(product_ids[n]) : n \in 1..Len(product_ids)}
        aggregate == ZRem(ZUnion(st, keys), members)
    IN Resolve(catalog, Truncate(ZRevRange(aggregate), max_results))

NextRecord ==
    \/ \E p \in Procs : Construct(p)
    \/ \E p \in Procs : \E products \in ProductSets(MaxBasket) :
           products_bought(p, products, FALSE, MaxRecords)
    \/ \E p \in Procs : Zincrby(p)

RecordSpec == Init /\ [][NextRecord]_vars

\* the products_bought calls that have returned and whose basket holds a and b
C24_Recorded(a, b) ==
    {p \in Procs : /\ Returned(p, "products_bought")
                   /\ {a, b} \subseteq SeqToSet(local[p].product_ids)}

\* C24: once every products_bought call of an interleaving has completed,
\* score(a -> b) is the number of recorded baskets that hold both a and b, for
\* every pair of different products: no increment is lost.
C24_NoLostUpdate ==
    (\A p \in Procs : pc[p] \in {"idle", "ready", "done"}) =>
        \A a, b \in ProductIds :
            a # b => Score(store, a, b) = Cardinality(C24_Recorded(a, b))

\* two requests have recorded baskets of three products listed in different
\* orders, and every pair has been counted twice
C24_Witness ==
    /\ \A p \in Procs : Returned(p, "products_bought") /\ Len(local[p].product_ids) = 3
    /\ local[1].product_ids # local[2].product_ids
    /\ \A a, b \in ProductIds : a # b => Score(store, a, b) = 2


\* ------------------------------------------------ the transient key's life
\* the lists of several distinct products
MultiSets(maxlen) == {products \in ProductSets(maxlen) : Len(products) > 1}

\* one basket is recorded, and multi-product suggestions are asked for in
\* overlapping requests
NextLife ==
    \/ \E p \in Procs : Construct(p) \/ Return(p)
    \/ \E p \in Procs : \E products \in MultiSets(MaxLen) :
           products_bought(p, products, FALSE, MaxLifeRecords)
    \/ \E p \in Procs : Zincrby(p)
    \/ \E p \in Procs : \E products \in MultiSets(MaxLen) :
           suggest_products_for(p, products, MaxK, FALSE)
    \/ \E p \in Procs :
           Zunionstore(p) \/ Zrem(p) \/ Zrange(p) \/ Delete(p) \/ ResolveProducts(p)

\* the commands of the method a request is in
Running(p) ==
    \/ Zincrby(p)
    \/ Zunionstore(p) \/ Zrem(p) \/ Zrange(p) \/ Delete(p)
    \/ ResolveProducts(p)

LifeSpec == Init /\ [][NextLife]_vars

\* every request goes on with the method it is in: a worker runs the commands
\* of a call one after the other and nothing in the code waits
FairSpec == LifeSpec /\ \A p \in Procs : WF_vars(Running(p))

\* the transient keys the calls of the model can build
C25_TmpKeys ==
    {<<"tmp", C12_Flat(ids)>> :
        ids \in {l \in UNION {[1..n -> ProductIds] : n \in 2..MaxLen} : Distinct(l)}}

\* request p is between the entry and the delete of a multi-product call
C25_InProgress(p) ==
    /\ local[p].op = "suggest_products_for"
    /\ pc[p] \in {"zunionstore", "zrem", "zrange", "delete"}

\* C25: on a store that stays up, when no suggest_products_for call is in
\* progress the store holds no transient key, whatever calls have overlapped;
\* and every transient key that is in the store is deleted later on.
C25_TransientKeyLifetime ==
    /\ []((\A p \in Procs : ~C25_InProgress(p)) =>
              \A key \in DOMAIN store : key[1] # "tmp")
    /\ \A key \in C25_TmpKeys : (key \in DOMAIN store) ~> (key \notin DOMAIN store)

\* two calls over different lists have both left their keys behind them: the
\* second has deleted its key and the first has returned
C25_Witness ==
    /\ \A p \in Procs : ~C25_InProgress(p)
    /\ \E p, q \in Procs :
           /\ p # q
           /\ Returned(p, "suggest_products_for") /\ local[p].result # <<>>
           /\ local[q].op = "suggest_products_for" /\ local[q].suggestions # <<>>
           /\ Len(local[p].product_ids) > 1 /\ Len(local[q].product_ids) > 1
           /\ local[p].product_ids # local[q].product_ids


\* ------------------------------------------------ keys of different sets
\* a catalog after years of additions and deletions: IDs of one and two digits
WideCatalog == {1, 3, 12, 23}

InitWide == InitWith(WideCatalog)

\* the requests of LifeSpec over the products of the wide catalog
KeySpec == InitWide /\ [][NextLife]_vars

\* C27: two multi-product suggest_products_for calls over different product
\* sets use different transient keys, so neither works on the aggregate of
\* the other.
C27_KeyInjectiveOnSets ==
    \A p, q \in Procs :
        (/\ C12_InMulti(p) /\ C12_InMulti(q)
         /\ SeqToSet(local[p].product_ids) # SeqToSet(local[q].product_ids))
        => TmpKey(local[p].product_ids) # TmpKey(local[q].product_ids)


\* ------------------------------------------------ symmetry between calls
\* C28: whenever no Recommender call is in progress, after products_bought and
\* clear_purchases calls have interleaved on a store that stays up,
\* score(a -> b) = score(b -> a) for every pair of different products.
C28_SymmetricWhenQuiet ==
    (\A p \in Procs : pc[p] \in {"idle", "ready", "done"}) =>
        \A a, b \in ProductIds : a # b => Score(store, a, b) = Score(store, b, a)


\* ------------------------------------------------ the coupon of an order
\* C29: a newly created order carries a coupon and a discount above zero only
\* if that coupon is active and inside its validity window when the order is
\* created.
C29_OrderCouponValid ==
    [][(Serves("order_create") /\ Len(orders') > Len(orders)) =>
           LET order == orders'[Len(orders')] IN
           (order.coupon # NoCoupon \/ order.discount # 0) =>
               /\ order.coupon \in DOMAIN coupons
               /\ coupons[order.coupon].active
               /\ coupons[order.coupon].valid_from <= now
               /\ now <= coupons[order.coupon].valid_to]_vars

====
